---- MODULE Spec2Model ----
(***************************************************************************)
(* LaRA edge filter: the three-state affine-gap (Gotoh) dynamic program    *)
(* PairwiseGotoh and the forward/backward filter generateEdges of          *)
(* src/src/edge_filter.hpp, modelled statement by statement.               *)
(*                                                                         *)
(* One call of generateEdges is a run of the state machine: the two        *)
(* constructors (forward on the sequences, backward on their reversed      *)
(* views) execute their loops one iteration per step, then the equality    *)
(* assertion, the edge loop and the return statement.  Assertions are      *)
(* modelled as compiled in (a debug build); a failing assertion ends the   *)
(* run in pc = "abort".                                                    *)
(***************************************************************************)
EXTENDS Integers, Sequences, FiniteSets

VARIABLES
    seqA,           \* IN  first sequence (1-indexed here, 0-indexed in the code)
    seqB,           \* IN  second sequence
    scoreMatrix,    \* IN  substitution matrix, data_gap_open, data_gap_extend
    suboptimalDiff, \* IN  margin below the optimum
    edges,          \* OUT the caller's vector<bool>, 1-indexed here
    edges0,         \* the value of edges when generateEdges was entered
    pc,             \* position in generateEdges / the running constructor
    cur,            \* the PairwiseGotoh object whose constructor runs
    tabs,           \* the two PairwiseGotoh objects: forward, backward
    a,              \* loop variable a of the running loop
    b,              \* loop variable b of the running loop
    threshold,      \* local constant threshold of generateEdges
    accesses,       \* table cells touched by the last step
    written,        \* indices of edges assigned so far in this call
    result,         \* the returned identity measure
    prev            \* outcome of the caller's previous call (same inputs)

vars == <<seqA, seqB, scoreMatrix, suboptimalDiff, edges, edges0, pc, cur,
          tabs, a, b, threshold, accesses, written, result, prev>>

(***************************************************************************)
(* Bounds of the model.                                                    *)
(***************************************************************************)
MaxLen == 2
MaxDiff == 2

\* Symbols of the Rna5 alphabet used by the bounded inputs.
Alphabet == {"A", "C"}

\* The sentinel of data_types.hpp: far below every attainable score.
infinity == 1000000

\* size_t arithmetic wraps modulo 2^64; the model wraps at a smaller power of
\* two, still far above every length that occurs.
SizeModulus == 2^30

SizeSub(x, y) == (x - y) % SizeModulus

Max2(x, y) == IF x >= y THEN x ELSE y

Max3(x, y, z) == Max2(Max2(x, y), z)

\* seqan::ModifiedString<..., ModReverse>: element i is element len-1-i.
Reverse(s) == [i \in 1..Len(s) |-> s[Len(s) + 1 - i]]

\* seqan::score(scoreMatrix, x, y): a lookup in the substitution matrix.
score(sm, x, y) == sm.mat[<<x, y>>]

(***************************************************************************)
(* class PairwiseGotoh.  An object is a record of lenA, lenB and the three *)
(* flat tables; a table is a function on 0 .. (lenA+1)*(lenB+1)-1.         *)
(***************************************************************************)
NoObj == [lenA |-> 0, lenB |-> 0, matrixM |-> <<>>, matrixH |-> <<>>, matrixV |-> <<>>]

\* The flat index computed by get().
Index(lenB, posA, posB) == (lenB + 1) * posA + posB

\* get(matrix, posA, posB) read as an rvalue; m names the table.
get(g, m, posA, posB) == g[m][Index(g.lenB, posA, posB)]

\* get(matrix, posA, posB) = v.
put(g, m, posA, posB, v) == [g EXCEPT ![m][Index(g.lenB, posA, posB)] = v]

\* std::vector::resize on an empty vector value-initialises the cells.
Resized(n) == [i \in 0..(n - 1) |-> 0]

\* A record of one table access, with the dimensions of the accessed object.
Acc(g, posA, posB) == [lenA |-> g.lenA, lenB |-> g.lenB, posA |-> posA, posB |-> posB]

\* Variant: the gap-open penalty is left out of the boundary column.
InitColM_NoOpen(go, ge, k) == ge * k

\* Variant: the boundary row of matrixM is marked unreachable.
InitRowM_Sentinel(go, ge, k) == -infinity

\* Variant: a horizontal gap after a vertical gap is scored as an extension.
FillH_ExtendAfterV(g, go, ge, i, j) ==
    Max3(get(g, "matrixM", i + 1, j) + go,
         get(g, "matrixH", i + 1, j) + ge,
         get(g, "matrixV", i + 1, j) + ge)

\* Variant: the substitution score is not added to the match cell.
FillM_NoScore(g, sm, sA, sB, i, j) ==
    Max3(get(g, "matrixM", i, j), get(g, "matrixH", i, j), get(g, "matrixV", i, j))

\* Right-hand sides of the boundary initialisation.
InitColM(go, ge, k) == go + ge * k

InitColV(go, ge, k) == go + ge * k

InitRowM(go, ge, k) == go + ge * k

InitRowH(go, ge, k) == go + ge * k

\* Right-hand sides of the fill recurrence for cell (i+1, j+1).
FillM(g, sm, sA, sB, i, j) ==
    Max3(get(g, "matrixM", i, j), get(g, "matrixH", i, j), get(g, "matrixV", i, j))
        + score(sm, sA[i + 1], sB[j + 1])

FillH(g, go, ge, i, j) ==
    Max3(get(g, "matrixM", i + 1, j) + go,
         get(g, "matrixH", i + 1, j) + ge,
         get(g, "matrixV", i + 1, j) + go)

FillV(g, go, ge, i, j) ==
    Max3(get(g, "matrixM", i, j + 1) + go,
         get(g, "matrixH", i, j + 1) + go,
         get(g, "matrixV", i, j + 1) + ge)

\* The assertion of getPrefixScore.
PrefixAssert(g, posA, posB) == posA <= g.lenA /\ posB <= g.lenB

getPrefixScore(g, posA, posB) ==
    Max3(get(g, "matrixM", posA, posB), get(g, "matrixH", posA, posB),
         get(g, "matrixV", posA, posB))

getOptimalScore(g) == getPrefixScore(g, g.lenA, g.lenB)

(***************************************************************************)
(* generateEdges: helpers for the statements of the edge loop.             *)
(***************************************************************************)
\* Variant: the backward position is one too small and wraps below zero.
BackwardPos_OffByOne(lenA, lenB, i, j) ==
    <<SizeSub(SizeSub(lenA, i), 2), SizeSub(SizeSub(lenB, j), 2)>>

\* The arguments of backward.getPrefixScore, in size_t arithmetic.
BackwardPos(lenA, lenB, i, j) ==
    <<SizeSub(SizeSub(lenA, i), 1), SizeSub(SizeSub(lenB, j), 1)>>

\* Variant: the margin is added to the optimum instead of subtracted.
Threshold_Plus(opt, diff) == opt + diff

\* threshold = forward.getOptimalScore() - suboptimalDiff.
Threshold(opt, diff) == opt - diff

\* Variant: the score of the pair itself is left out of the sum.
EdgeSum_NoPair(fwd, bwd, sm, sA, sB, i, j) ==
    getPrefixScore(fwd, i, j)
        + getPrefixScore(bwd, Len(sA) - i - 1, Len(sB) - j - 1)

\* The left-hand side of the comparison in the edge loop.
EdgeSum(fwd, bwd, sm, sA, sB, i, j) ==
    LET bp == BackwardPos(Len(sA), Len(sB), i, j)
    IN  getPrefixScore(fwd, i, j) + score(sm, sA[i + 1], sB[j + 1])
            + getPrefixScore(bwd, bp[1], bp[2])

\* Variant: the comparison is strict.
EdgeCond_Strict(sum, thr) == sum > thr

\* The comparison of the edge loop.
EdgeCond(sum, thr) == sum >= thr

\* The flat index of edge (i, j).
EdgeIndex(lenB, i, j) == lenB * i + j

\* Variant: the outcome of the test is assigned unconditionally.
StoreEdge_Assign(e, idx, cond) == [e EXCEPT ![idx + 1] = cond]

\* if (cond) edges[idx] = true;   (edges is 1-indexed in the model)
StoreEdge(e, idx, cond) == IF cond THEN [e EXCEPT ![idx + 1] = TRUE] ELSE e

(***************************************************************************)
(* Inputs.                                                                 *)
(***************************************************************************)
Seqs(S, n) == UNION {[1..k -> S] : k \in 0..n}

MatchMismatch(m, x) == [p \in Alphabet \X Alphabet |-> IF p[1] = p[2] THEN m ELSE x]

Asymmetric == [p \in Alphabet \X Alphabet |->
                  IF p[1] = p[2] THEN 2 ELSE IF p[1] = "A" THEN 1 ELSE -3]

Matrices == {MatchMismatch(2, -1), Asymmetric}

GapCosts == {<<-4, -1>>, <<-1, -2>>}

ScoreConfigs == {[mat |-> m, data_gap_open |-> gc[1], data_gap_extend |-> gc[2]] :
                    m \in Matrices, gc \in GapCosts}

AllFalse(n) == [i \in 1..n |-> FALSE]

\* Vectors of the right size a caller may pass in.
EdgeInits(n) == {AllFalse(n), [i \in 1..n |-> i % 2 = 1]}

NoResult == [evaluated |-> FALSE, defined |-> FALSE, optimal |-> 0, divisor |-> 0]

NoPrev == [valid |-> FALSE, edges |-> <<>>, diff |-> 0]

\* The sequences the running constructor was given.
CtorSeqA == IF cur = "forward" THEN seqA ELSE Reverse(seqA)

CtorSeqB == IF cur = "forward" THEN seqB ELSE Reverse(seqB)

\* Entry of generateEdges: locals of a fresh call.
Entry ==
    /\ pc = "ctor"
    /\ cur = "forward"
    /\ tabs = [forward |-> NoObj, backward |-> NoObj]
    /\ a = 0
    /\ b = 0
    /\ threshold = 0
    /\ accesses = {}
    /\ written = {}
    /\ result = NoResult

Init ==
    /\ seqA \in Seqs(Alphabet, MaxLen)
    /\ seqB \in Seqs(Alphabet, MaxLen)
    /\ scoreMatrix \in ScoreConfigs
    /\ suboptimalDiff \in 0..MaxDiff
    /\ edges \in EdgeInits(Len(seqA) * Len(seqB))
    /\ edges0 = edges
    /\ prev = NoPrev
    /\ Entry

(***************************************************************************)
(* PairwiseGotoh::PairwiseGotoh, one loop iteration per step.              *)
(***************************************************************************)
g == tabs[cur]

go == scoreMatrix.data_gap_open

ge == scoreMatrix.data_gap_extend

\* Member initialisers, the three resizes and the cell (0,0).
Construct ==
    /\ pc = "ctor"
    /\ LET lenA == Len(CtorSeqA)
           lenB == Len(CtorSeqB)
           n    == (lenA + 1) * (lenB + 1)
           g0   == [lenA |-> lenA, lenB |-> lenB, matrixM |-> Resized(n),
                    matrixH |-> Resized(n), matrixV |-> Resized(n)]
           g1   == put(g0, "matrixM", 0, 0, 0)
           g2   == put(g1, "matrixH", 0, 0, -infinity)
           g3   == put(g2, "matrixV", 0, 0, -infinity)
       IN  /\ tabs' = [tabs EXCEPT ![cur] = g3]
           /\ accesses' = {Acc(g0, 0, 0)}
    /\ a' = 0
    /\ pc' = "initA"
    /\ UNCHANGED <<seqA, seqB, scoreMatrix, suboptimalDiff, edges, edges0, cur, b,
                   threshold, written, result, prev>>

\* for (a = 0; a < lenA; ++a): the boundary column posB = 0.
InitColumn ==
    /\ pc = "initA"
    /\ IF a < g.lenA
       THEN LET g1 == put(g, "matrixM", a + 1, 0, InitColM(go, ge, a))
                g2 == put(g1, "matrixH", a + 1, 0, -infinity)
                g3 == put(g2, "matrixV", a + 1, 0, InitColV(go, ge, a))
            IN  /\ tabs' = [tabs EXCEPT ![cur] = g3]
                /\ accesses' = {Acc(g, a + 1, 0)}
                /\ a' = a + 1
                /\ UNCHANGED <<pc, b>>
       ELSE /\ pc' = "initB"
            /\ a' = 0
            /\ b' = 0
            /\ accesses' = {}
            /\ UNCHANGED tabs
    /\ UNCHANGED <<seqA, seqB, scoreMatrix, suboptimalDiff, edges, edges0, cur,
                   threshold, written, result, prev>>

\* for (b = 0; b < lenB; ++b): the boundary row posA = 0.
InitRow ==
    /\ pc = "initB"
    /\ IF b < g.lenB
       THEN LET g1 == put(g, "matrixM", 0, b + 1, InitRowM(go, ge, b))
                g2 == put(g1, "matrixH", 0, b + 1, InitRowH(go, ge, b))
                g3 == put(g2, "matrixV", 0, b + 1, -infinity)
            IN  /\ tabs' = [tabs EXCEPT ![cur] = g3]
                /\ accesses' = {Acc(g, 0, b + 1)}
                /\ b' = b + 1
                /\ UNCHANGED <<pc, a>>
       ELSE /\ pc' = "fill"
            /\ a' = 0
            /\ b' = 0
            /\ accesses' = {}
            /\ UNCHANGED tabs
    /\ UNCHANGED <<seqA, seqB, scoreMatrix, suboptimalDiff, edges, edges0, cur,
                   threshold, written, result, prev>>

\* The nested fill loops; leaving the outer loop ends the constructor.
Fill ==
    /\ pc = "fill"
    /\ IF a < g.lenA
       THEN IF b < g.lenB
            THEN LET g1 == put(g, "matrixM", a + 1, b + 1,
                               FillM(g, scoreMatrix, CtorSeqA, CtorSeqB, a, b))
                     g2 == put(g1, "matrixH", a + 1, b + 1, FillH(g1, go, ge, a, b))
                     g3 == put(g2, "matrixV", a + 1, b + 1, FillV(g2, go, ge, a, b))
                 IN  /\ tabs' = [tabs EXCEPT ![cur] = g3]
                     /\ accesses' = {Acc(g, a, b), Acc(g, a + 1, b), Acc(g, a, b + 1),
                                     Acc(g, a + 1, b + 1)}
                     /\ b' = b + 1
                     /\ UNCHANGED <<pc, a, cur>>
            ELSE /\ a' = a + 1
                 /\ b' = 0
                 /\ accesses' = {}
                 /\ UNCHANGED <<pc, tabs, cur>>
       ELSE /\ a' = 0
            /\ b' = 0
            /\ accesses' = {}
            /\ IF cur = "forward"
               THEN cur' = "backward" /\ pc' = "ctor"
               ELSE cur' = cur /\ pc' = "assert"
            /\ UNCHANGED tabs
    /\ UNCHANGED <<seqA, seqB, scoreMatrix, suboptimalDiff, edges, edges0,
                   threshold, written, result, prev>>

(***************************************************************************)
(* generateEdges after the two constructors.                               *)
(***************************************************************************)
forward == tabs.forward

backward == tabs.backward

\* SEQAN_ASSERT_EQ(forward.getOptimalScore(), backward.getOptimalScore());
\* threshold = forward.getOptimalScore() - suboptimalDiff.
CheckOptimal ==
    /\ pc = "assert"
    /\ accesses' = {Acc(forward, forward.lenA, forward.lenB),
                    Acc(backward, backward.lenA, backward.lenB)}
    /\ IF getOptimalScore(forward) = getOptimalScore(backward)
       THEN /\ threshold' = Threshold(getOptimalScore(forward), suboptimalDiff)
            /\ pc' = "edges"
       ELSE /\ pc' = "abort"
            /\ UNCHANGED threshold
    /\ UNCHANGED <<seqA, seqB, scoreMatrix, suboptimalDiff, edges, edges0, cur, tabs,
                   a, b, written, result, prev>>

\* The nested edge loops; a failing assertion of getPrefixScore aborts.
EdgeLoop ==
    /\ pc = "edges"
    /\ IF a < Len(seqA)
       THEN IF b < Len(seqB)
            THEN LET bp  == BackwardPos(Len(seqA), Len(seqB), a, b)
                     idx == EdgeIndex(Len(seqB), a, b)
                 IN  /\ accesses' = {Acc(forward, a, b), Acc(backward, bp[1], bp[2])}
                     /\ IF PrefixAssert(forward, a, b) /\ PrefixAssert(backward, bp[1], bp[2])
                        THEN LET cond == EdgeCond(EdgeSum(forward, backward, scoreMatrix,
                                                          seqA, seqB, a, b), threshold)
                             IN  /\ edges' = StoreEdge(edges, idx, cond)
                                 /\ written' = IF cond THEN written \cup {idx} ELSE written
                                 /\ b' = b + 1
                                 /\ UNCHANGED <<pc, a>>
                        ELSE /\ pc' = "abort"
                             /\ UNCHANGED <<edges, written, a, b>>
            ELSE /\ a' = a + 1
                 /\ b' = 0
                 /\ accesses' = {}
                 /\ UNCHANGED <<pc, edges, written>>
       ELSE /\ pc' = "return"
            /\ a' = 0
            /\ b' = 0
            /\ accesses' = {}
            /\ UNCHANGED <<edges, written>>
    /\ UNCHANGED <<seqA, seqB, scoreMatrix, suboptimalDiff, edges0, cur, tabs,
                   threshold, result, prev>>

\* return forward.getOptimalScore() / factor2int / std::max(lenA, lenB);
\* a zero divisor yields no defined value: the call traps or returns a NaN.
Return ==
    /\ pc = "return"
    /\ LET divisor == Max2(Len(seqA), Len(seqB))
       IN  /\ result' = [evaluated |-> TRUE, defined |-> divisor # 0,
                         optimal |-> getOptimalScore(forward), divisor |-> divisor]
           /\ IF divisor # 0 THEN pc' = "done" ELSE pc' \in {"done", "abort"}
    /\ accesses' = {Acc(forward, forward.lenA, forward.lenB)}
    /\ UNCHANGED <<seqA, seqB, scoreMatrix, suboptimalDiff, edges, edges0, cur, tabs,
                   a, b, threshold, written, prev>>

\* The caller repeats the call on the same inputs with a wider margin and a
\* fresh all-false vector, keeping the earlier outcome for comparison.
CallAgain ==
    /\ pc = "done"
    /\ edges0 = AllFalse(Len(edges0))
    /\ \E m \in (suboptimalDiff + 1)..MaxDiff : suboptimalDiff' = m
    /\ prev' = [valid |-> TRUE, edges |-> edges, diff |-> suboptimalDiff]
    /\ edges' = AllFalse(Len(seqA) * Len(seqB))
    /\ edges0' = edges'
    /\ pc' = "ctor"
    /\ cur' = "forward"
    /\ tabs' = [forward |-> NoObj, backward |-> NoObj]
    /\ a' = 0
    /\ b' = 0
    /\ threshold' = 0
    /\ accesses' = {}
    /\ written' = {}
    /\ result' = NoResult
    /\ UNCHANGED <<seqA, seqB, scoreMatrix>>

Next ==
    \/ Construct
    \/ InitColumn
    \/ InitRow
    \/ Fill
    \/ CheckOptimal
    \/ EdgeLoop
    \/ Return
    \/ CallAgain

Spec == Init /\ [][Next]_vars

\* The concrete scenarios of the design document: AAAA against AAAA or CCCC,
\* match +2, mismatch -1, gap open -4, gap extend -1.
ScenarioConfig == [mat |-> MatchMismatch(2, -1), data_gap_open |-> -4,
                   data_gap_extend |-> -1]

InitScenario ==
    /\ seqA = <<"A", "A", "A", "A">>
    /\ seqB \in {<<"A", "A", "A", "A">>, <<"C", "C", "C", "C">>}
    /\ scoreMatrix = ScenarioConfig
    /\ suboptimalDiff \in 0..MaxDiff
    /\ edges \in EdgeInits(Len(seqA) * Len(seqB))
    /\ edges0 = edges
    /\ prev = NoPrev
    /\ Entry

SpecScenario == InitScenario /\ [][Next]_vars

(***************************************************************************)
(* Reference semantics: explicit alignments and their affine-gap score.    *)
(* An alignment is a sequence of columns: "M" pairs A[i] with B[j], "H"    *)
(* puts B[j] against a gap, "V" puts A[i] against a gap.                   *)
(***************************************************************************)
RECURSIVE Aligns(_, _)
Aligns(n, m) ==
    IF n = 0 /\ m = 0 THEN {<<>>}
    ELSE (IF n > 0 /\ m > 0 THEN {Append(w, "M") : w \in Aligns(n - 1, m - 1)} ELSE {})
         \cup (IF m > 0 THEN {Append(w, "H") : w \in Aligns(n, m - 1)} ELSE {})
         \cup (IF n > 0 THEN {Append(w, "V") : w \in Aligns(n - 1, m)} ELSE {})

\* Score of the columns k.. of w, when i symbols of sA and j of sB precede them.
\* A gap column costs the extend penalty if the column before it is a gap
\* column of the same kind, and the open penalty otherwise.
RECURSIVE ScoreFrom(_, _, _, _, _, _, _)
ScoreFrom(w, k, i, j, sA, sB, sm) ==
    IF k > Len(w) THEN 0
    ELSE IF w[k] = "M"
         THEN score(sm, sA[i + 1], sB[j + 1]) + ScoreFrom(w, k + 1, i + 1, j + 1, sA, sB, sm)
         ELSE (IF k > 1 /\ w[k - 1] = w[k] THEN sm.data_gap_extend ELSE sm.data_gap_open)
              + (IF w[k] = "H" THEN ScoreFrom(w, k + 1, i, j + 1, sA, sB, sm)
                               ELSE ScoreFrom(w, k + 1, i + 1, j, sA, sB, sm))

AlignScore(w, sA, sB, sm) == ScoreFrom(w, 1, 0, 0, sA, sB, sm)

\* The residue pairs (0-indexed) an alignment aligns.
RECURSIVE PairsFrom(_, _, _, _)
PairsFrom(w, k, i, j) ==
    IF k > Len(w) THEN {}
    ELSE IF w[k] = "M" THEN {<<i, j>>} \cup PairsFrom(w, k + 1, i + 1, j + 1)
         ELSE IF w[k] = "H" THEN PairsFrom(w, k + 1, i, j + 1)
              ELSE PairsFrom(w, k + 1, i + 1, j)

Pairs(w) == PairsFrom(w, 1, 0, 0)

SetMax(S) == CHOOSE x \in S : \A y \in S : y <= x

Prefix(s, n) == SubSeq(s, 1, n)

\* Best score over all global alignments of the two sequences.
BestScore(sA, sB, sm) ==
    SetMax({AlignScore(w, sA, sB, sm) : w \in Aligns(Len(sA), Len(sB))})

\* The alignments of the inputs, and those within the margin of the optimum.
FullAligns == Aligns(Len(seqA), Len(seqB))

FullScore(w) == AlignScore(w, seqA, seqB, scoreMatrix)

Optimum == BestScore(seqA, seqB, scoreMatrix)

EdgeAt(e, i, j) == e[EdgeIndex(Len(seqB), i, j) + 1]

Cells == (0..(Len(seqA) - 1)) \X (0..(Len(seqB) - 1))

NonDegenerate == Len(seqA) > 0 /\ Len(seqB) > 0

CleanCall == edges0 = AllFalse(Len(edges0))

Built == pc \in {"assert", "edges", "return", "done"}

(***************************************************************************)
(* Claims.                                                                 *)
(***************************************************************************)
\* Every full alignment of the inputs as <<its aligned pairs, its score>>.
ScoredAligns == {<<Pairs(w), FullScore(w)>> : w \in FullAligns}

\* The best score of a full alignment that aligns A[i] with B[j].
ForcedBest(i, j) == SetMax({sw[2] : sw \in {x \in ScoredAligns : <<i, j>> \in x[1]}})

\* C1: after a call on non-empty sequences that started from an all-false
\* vector, edge (i, j) is set exactly when some full alignment pairing A[i]
\* with B[j] scores within suboptimalDiff of the optimum, and the sum tested
\* by the edge loop is the best score of a full alignment forced through (i, j).
C1_EdgesAreForcedAlignments ==
    (pc = "done" /\ NonDegenerate /\ CleanCall) =>
        LET scored == ScoredAligns
            best   == SetMax({sw[2] : sw \in scored})
        IN  \A c \in Cells :
                /\ EdgeSum(forward, backward, scoreMatrix, seqA, seqB, c[1], c[2])
                       = SetMax({sw[2] : sw \in {x \in scored : c \in x[1]}})
                /\ EdgeAt(edges, c[1], c[2])
                       <=> \E sw \in scored : c \in sw[1] /\ sw[2] >= best - suboptimalDiff

\* A finished clean call that kept a suboptimal pair within the margin and
\* rejected another pair.
C1_Witness ==
    /\ pc = "done" /\ NonDegenerate /\ CleanCall
    /\ \E c \in Cells : EdgeAt(edges, c[1], c[2]) /\ ForcedBest(c[1], c[2]) < Optimum
    /\ \E c \in Cells : ~EdgeAt(edges, c[1], c[2])

\* The prefix scores of a constructed object equal the brute-force optimum.
PrefixScoresExact(obj, sA, sB) ==
    \A posA \in 0..Len(sA), posB \in 0..Len(sB) :
        getPrefixScore(obj, posA, posB)
            = BestScore(Prefix(sA, posA), Prefix(sB, posB), scoreMatrix)

\* C2: once both objects are constructed, getPrefixScore(posA, posB) is the
\* maximum affine-gap score over all global alignments of the two prefixes,
\* getPrefixScore(0, 0) is 0 and getOptimalScore() is getPrefixScore(lenA, lenB).
C2_PrefixScoreIsOptimal ==
    pc = "assert" =>
        /\ PrefixScoresExact(forward, seqA, seqB)
        /\ PrefixScoresExact(backward, Reverse(seqA), Reverse(seqB))
        /\ getPrefixScore(forward, 0, 0) = 0
        /\ getOptimalScore(forward) = Optimum

\* Both objects are built on sequences of length two or more whose optimum
\* needs a gap (it beats the best gap-free alignment, if there is one).
C2_Witness ==
    /\ pc = "assert" /\ Len(seqA) > 1 /\ Len(seqB) > 1
    /\ \A w \in FullAligns : FullScore(w) = Optimum => \E k \in 1..Len(w) : w[k] # "M"

\* C3: for non-degenerate inputs the forward and backward optimal scores are
\* equal, and the run never aborts (the assertion of generateEdges holds).
C3_ForwardEqualsBackward ==
    NonDegenerate =>
        /\ pc # "abort"
        /\ Built => getOptimalScore(forward) = getOptimalScore(backward)

\* The assertion was passed on sequences that differ from their reversals.
C3_Witness ==
    /\ pc = "edges" /\ NonDegenerate
    /\ seqA # Reverse(seqA) /\ seqB # Reverse(seqB) /\ seqA # seqB
    /\ getOptimalScore(forward) = getOptimalScore(backward)

\* The test of the edge loop for cell c, on the constructed tables.
Passes(c) == EdgeCond(EdgeSum(forward, backward, scoreMatrix, seqA, seqB, c[1], c[2]),
                      threshold)

\* The aligned-pair sets of the optimal full alignments of the inputs.
OptimalPairSets ==
    LET scored == ScoredAligns
        best   == SetMax({sw[2] : sw \in scored})
    IN  {sw[1] : sw \in {x \in scored : x[2] = best}}

\* C4 as stated: at margin 0 on non-empty sequences the edge set is non-empty
\* and contains every aligned pair of at least one optimal full alignment.
C4_NonEmptyAtZeroMargin ==
    (pc = "done" /\ NonDegenerate /\ CleanCall /\ suboptimalDiff = 0) =>
        /\ \E c \in Cells : EdgeAt(edges, c[1], c[2])
        /\ \E ps \in OptimalPairSets : \A c \in ps : EdgeAt(edges, c[1], c[2])

\* C4 amended: at margin 0 on non-empty sequences the edge set contains every
\* aligned pair of at least one optimal full alignment, and it is non-empty
\* exactly when some optimal full alignment aligns at least one pair.
C4_OptimalPathAtZeroMargin ==
    (pc = "done" /\ NonDegenerate /\ CleanCall /\ suboptimalDiff = 0) =>
        LET optimal == OptimalPairSets
        IN  /\ \E ps \in optimal : \A c \in ps : EdgeAt(edges, c[1], c[2])
            /\ (\E c \in Cells : EdgeAt(edges, c[1], c[2]))
                   <=> (\E ps \in optimal : ps # {})

\* A margin-0 call that kept the pairs of an optimal alignment and dropped others.
C4_Witness ==
    /\ pc = "done" /\ NonDegenerate /\ CleanCall /\ suboptimalDiff = 0
    /\ \E c \in Cells : EdgeAt(edges, c[1], c[2])
    /\ \E c \in Cells : ~EdgeAt(edges, c[1], c[2])

\* C5: of two calls on the same inputs from all-false vectors, the one with
\* the wider margin sets every cell the one with the narrower margin set.
C5_MonotoneInMargin ==
    (pc = "done" /\ prev.valid) =>
        /\ prev.diff < suboptimalDiff
        /\ \A i \in DOMAIN edges : prev.edges[i] => edges[i]

\* The wider margin kept the earlier edges and added at least one.
C5_Witness ==
    /\ pc = "done" /\ prev.valid
    /\ \E i \in DOMAIN edges : prev.edges[i]
    /\ \E i \in DOMAIN edges : edges[i] /\ ~prev.edges[i]

\* C6: on degenerate input no edge cell is set, the run does not fault, and
\* the return expression divides by a non-zero max(lenA, lenB).
C6_DegenerateDefined ==
    ~NonDegenerate =>
        /\ pc # "abort"
        /\ written = {} /\ edges = edges0
        /\ result.evaluated => (result.defined /\ result.divisor # 0)

\* C7: AAAA against AAAA with match +2, mismatch -1, open -4, extend -1 and
\* margin 0 has optimal score 8 and the four diagonal edges are set.
C7_ScenarioAAAA ==
    (seqA = <<"A", "A", "A", "A">> /\ seqB = seqA /\ scoreMatrix = ScenarioConfig
        /\ suboptimalDiff = 0) =>
        /\ Built => getOptimalScore(forward) = 8
        /\ pc = "done" => \A i \in 0..3 : EdgeAt(edges, i, i)

\* The scenario ran to the end from an all-false vector: the diagonal is set
\* and an off-diagonal cell is not.
C7_Witness ==
    /\ seqA = <<"A", "A", "A", "A">> /\ seqB = seqA /\ scoreMatrix = ScenarioConfig
    /\ suboptimalDiff = 0 /\ CleanCall /\ pc = "done"
    /\ result.optimal = 8
    /\ \A i \in 0..3 : EdgeAt(edges, i, i)
    /\ ~EdgeAt(edges, 0, 1)

InRange(acc) ==
    /\ acc.posA \in 0..acc.lenA
    /\ acc.posB \in 0..acc.lenB
    /\ Index(acc.lenB, acc.posA, acc.posB) < (acc.lenA + 1) * (acc.lenB + 1)

\* C8: every table access of the constructors and of generateEdges lies in
\* [0, lenA] x [0, lenB], no assertion of getPrefixScore fails, and
\* lenA-a-1, lenB-b-1 do not wrap in the edge loop.
C8_AccessesInRange ==
    /\ \A acc \in accesses : InRange(acc)
    /\ pc = "abort" => (result.evaluated /\ ~result.defined)
    /\ (pc = "edges" /\ a < Len(seqA) /\ b < Len(seqB)) =>
           BackwardPos(Len(seqA), Len(seqB), a, b)
               = <<Len(seqA) - a - 1, Len(seqB) - b - 1>>

\* The edge loop queried the last forward cell it uses and backward cell (0, 0).
C8_Witness ==
    /\ pc = "edges" /\ Len(seqA) > 1 /\ Len(seqB) > 1
    /\ Acc(backward, 0, 0) \in accesses
    /\ Acc(forward, Len(seqA) - 1, Len(seqB) - 1) \in accesses

Abs(x) == IF x < 0 THEN -x ELSE x

\* Largest magnitude of a single column score, and of any alignment score.
MaxAbs == SetMax({Abs(go), Abs(ge)}
                 \cup {Abs(scoreMatrix.mat[p]) : p \in DOMAIN scoreMatrix.mat})

Attainable == (Len(seqA) + Len(seqB)) * MaxAbs

SentinelLowEnough == infinity > Attainable + MaxAbs

Finite(v, bound) == -bound <= v /\ v <= bound

SentinelOnlyAtBoundary(obj) ==
    LET bound == Attainable
    IN  \A posA \in 0..obj.lenA, posB \in 0..obj.lenB :
            /\ Finite(get(obj, "matrixM", posA, posB), bound)
            /\ IF posB = 0 THEN get(obj, "matrixH", posA, posB) = -infinity
                           ELSE Finite(get(obj, "matrixH", posA, posB), bound)
            /\ IF posA = 0 THEN get(obj, "matrixV", posA, posB) = -infinity
                           ELSE Finite(get(obj, "matrixV", posA, posB), bound)

\* C9: with the sentinel far enough below the attainable scores, every cell of
\* a constructed object is the sentinel or an attainable score; the sentinel
\* sits exactly in column 0 of matrixH and row 0 of matrixV.
C9_FiniteOrSentinel ==
    (Built /\ SentinelLowEnough) =>
        SentinelOnlyAtBoundary(forward) /\ SentinelOnlyAtBoundary(backward)

\* Both objects are constructed with interior cells.
C9_Witness ==
    /\ pc = "assert" /\ SentinelLowEnough /\ Len(seqA) > 1 /\ Len(seqB) > 1
    /\ get(forward, "matrixH", 1, 0) = -infinity
    /\ Finite(get(backward, "matrixH", 1, 1), Attainable)

\* The frame of generateEdges on the caller's vector.
EdgesFrame ==
    /\ Len(edges) = Len(edges0)
    /\ \A i \in written : /\ i < Len(seqA) * Len(seqB)
                          /\ \E c \in Cells : i = EdgeIndex(Len(seqB), c[1], c[2])
                          /\ edges[i + 1]
    /\ \A i \in DOMAIN edges : (i - 1) \notin written => edges[i] = edges0[i]
    /\ \A i \in DOMAIN edges : edges0[i] => edges[i]
    /\ pc = "done" =>
           \A c \in Cells : EdgeAt(edges, c[1], c[2])
                                <=> (EdgeAt(edges0, c[1], c[2]) \/ Passes(c))

\* The result is exactly the set of cells that pass the threshold test.
ExactResult == \A c \in Cells : EdgeAt(edges, c[1], c[2]) <=> Passes(c)

\* C10 as stated: the frame, and the result is the exact thresholded set only
\* when the caller passed an all-false vector.
C10_ExactOnlyIfAllFalse ==
    /\ EdgesFrame
    /\ (pc = "done" /\ CleanCall) => ExactResult
    /\ (pc = "done" /\ ExactResult) => CleanCall

\* C10 amended: the frame, and the result is the exact thresholded set exactly
\* when every cell passed in as true passes the threshold test (so always for
\* an all-false vector).
C10_WritesOnlyTrue ==
    /\ EdgesFrame
    /\ (pc = "done" /\ CleanCall) => ExactResult
    /\ pc = "done" =>
           (ExactResult <=> \A c \in Cells : EdgeAt(edges0, c[1], c[2]) => Passes(c))

\* A cell passed in as true fails the test and stays true, while another cell
\* was written.
C10_Witness ==
    /\ pc = "done"
    /\ \E c \in Cells : EdgeAt(edges0, c[1], c[2]) /\ ~Passes(c) /\ EdgeAt(edges, c[1], c[2])
    /\ \E c \in Cells : ~EdgeAt(edges0, c[1], c[2]) /\ EdgeAt(edges, c[1], c[2])
    /\ ~ExactResult

====
